---- MODULE Spec2Model ----
(***************************************************************************)
(* Model of the /analyze decision pipeline of the Derm Peptide App:        *)
(*   server/ml/peptide_flags.py  (PEPTIDE_KB, flags_from_list)             *)
(*   server/app.py               (safety_calibration, analyze)             *)
(*                                                                         *)
(* Representation.                                                         *)
(*  - A Python str is a sequence of atoms.  An atom is "," (the comma),    *)
(*    " " (one whitespace character) or a word: a run of characters that   *)
(*    holds neither a comma nor whitespace.  split, strip and lower are    *)
(*    modelled on these sequences.  A peptide name (a dict key) is the     *)
(*    atom sequence of a stripped, lowercased token.                       *)
(*  - Floats are fixed point, in tenths: melanin 35.0 is 350, roughness    *)
(*    8.0 is 80, a needle length of 0.4 mm is 4.                           *)
(*  - Python's True / False / "unknown" in the "charged" field are the     *)
(*    strings "true" / "false" / "unknown" (TLC cannot compare a boolean   *)
(*    with a string).                                                      *)
(***************************************************************************)
EXTENDS Integers, Sequences, FiniteSets, TLC

VARIABLES pc, mi, fitz, site, peptide_list, tr, flags, params, pep_flags, recs

vars == <<pc, mi, fitz, site, peptide_list, tr, flags, params, pep_flags, recs>>

-----------------------------------------------------------------------------
(* Bounds and input domains *)

MaxLen == 3

Comma == ","
Space == " "

PeptideWords ==
    {"palmitoyl-pentapeptide-4", "ghk-cu", "GHK-Cu", "acetyl-hexapeptide-8",
     "matrixyl-3000", "td-1", "xyz-123"}

PeptideAtoms == PeptideWords \cup {Comma, Space}

RECURSIVE SeqsUpTo(_, _)
SeqsUpTo(S, n) ==
    IF n = 0 THEN {<<>>}
    ELSE LET shorter == SeqsUpTo(S, n - 1)
         IN  shorter \cup {Append(s, a) : s \in {t \in shorter : Len(t) = n - 1}, a \in S}

PeptideLists == SeqsUpTo(PeptideAtoms, MaxLen)

MelaninValues == {350, 400}
FitzValues == {0, 2, 4, 7}
SiteValues == {<<"face">>, <<"periorbital">>, <<"Eye">>, <<"eye", " ">>}
RoughnessValues == {80, 90}

-----------------------------------------------------------------------------
(* str helpers *)

LowerAtom(a) ==
    CASE a = "GHK-Cu" -> "ghk-cu"
      [] a = "Eye" -> "eye"
      [] a = "PERIORBITAL" -> "periorbital"
      [] OTHER -> a

Lower(s) == [i \in 1..Len(s) |-> LowerAtom(s[i])]

RECURSIVE LStrip(_)
LStrip(s) ==
    IF s # <<>> /\ Head(s) = Space THEN LStrip(Tail(s)) ELSE s

RECURSIVE RStrip(_)
RStrip(s) ==
    IF s # <<>> /\ s[Len(s)] = Space THEN RStrip(SubSeq(s, 1, Len(s) - 1)) ELSE s

Strip(s) == RStrip(LStrip(s))

RECURSIVE SplitFrom(_, _, _)
SplitFrom(s, i, cur) ==
    IF i > Len(s) THEN <<cur>>
    ELSE IF s[i] = Comma THEN <<cur>> \o SplitFrom(s, i + 1, <<>>)
    ELSE SplitFrom(s, i + 1, Append(cur, s[i]))

Split(s) == SplitFrom(s, 1, <<>>)

Min(a, b) == IF a <= b THEN a ELSE b

BoolStr(b) == IF b THEN "true" ELSE "false"

-----------------------------------------------------------------------------
(* server/ml/peptide_flags.py *)

PeptideInfo(name, lipidated, net_charge, is_skp, approx_mw) ==
    [name |-> name, lipidated |-> lipidated, net_charge |-> net_charge,
     is_skp |-> is_skp, approx_mw |-> approx_mw]

PEPTIDE_KB ==
    (<<"palmitoyl-pentapeptide-4">> :>
        PeptideInfo("palmitoyl-pentapeptide-4", TRUE, "neutral", FALSE, 802))
    @@ (<<"ghk-cu">> :> PeptideInfo("ghk-cu", FALSE, "positive", FALSE, 403))
    @@ (<<"acetyl-hexapeptide-8">> :>
        PeptideInfo("acetyl-hexapeptide-8", FALSE, "neutral", FALSE, 889))
    @@ (<<"matrixyl-3000">> :> PeptideInfo("matrixyl-3000", TRUE, "neutral", FALSE, 1000))
    @@ (<<"td-1">> :> PeptideInfo("td-1", FALSE, "neutral", TRUE, 1200))

KeepToken_KeepBlank(s) == TRUE

KeepToken(s) == Strip(s) # <<>>

ParseNames_NoLower(csv_names) ==
    LET parts == Split(csv_names)
        kept == SelectSeq(parts, KeepToken)
    IN  [i \in 1..Len(kept) |-> Strip(kept[i])]

ParseNames(csv_names) ==
    LET parts == Split(csv_names)
        kept == SelectSeq(parts, KeepToken)
    IN  [i \in 1..Len(kept) |-> Lower(Strip(kept[i]))]

KnownFlags_Over1000(info) ==
    [lipidated |-> info.lipidated,
     charged |-> BoolStr(info.net_charge \in {"positive", "negative"}),
     net_charge |-> info.net_charge,
     is_skp |-> info.is_skp,
     over_500_Da |-> info.approx_mw > 1000,
     approx_mw |-> info.approx_mw]

KnownFlags(info) ==
    [lipidated |-> info.lipidated,
     charged |-> BoolStr(info.net_charge \in {"positive", "negative"}),
     net_charge |-> info.net_charge,
     is_skp |-> info.is_skp,
     over_500_Da |-> info.approx_mw > 500,
     approx_mw |-> info.approx_mw]

UnknownFlags_NotOver500 ==
    [lipidated |-> FALSE,
     charged |-> "unknown",
     net_charge |-> "unknown",
     is_skp |-> FALSE,
     over_500_Da |-> FALSE,
     approx_mw |-> 600]

UnknownFlags ==
    [lipidated |-> FALSE,
     charged |-> "unknown",
     net_charge |-> "unknown",
     is_skp |-> FALSE,
     over_500_Da |-> TRUE,
     approx_mw |-> 600]

FlagsFor(raw) ==
    IF raw \in DOMAIN PEPTIDE_KB THEN KnownFlags(PEPTIDE_KB[raw]) ELSE UnknownFlags

DictSet(d, k, v) == [x \in DOMAIN d \cup {k} |-> IF x = k THEN v ELSE d[x]]

RECURSIVE FlagsLoop(_, _, _)
FlagsLoop(names, i, out) ==
    IF i > Len(names) THEN out
    ELSE FlagsLoop(names, i + 1, DictSet(out, names[i], FlagsFor(names[i])))

flags_from_list(csv_names) == FlagsLoop(ParseNames(csv_names), 1, <<>>)

-----------------------------------------------------------------------------
(* server/app.py: safety_calibration *)

MN_LENGTH_INIT == 4
MN_LENGTH_LOW == 2
MELANIN_LIMIT == 350
FITZ_LIMIT == 4
ROUGHNESS_LIMIT == 80

InitParams == [mn_length_mm |-> MN_LENGTH_INIT, spf_prompt |-> 0]

LowerMnFlag == [code |-> "LOWER_MN", severity |-> "caution"]
SiteLimitFlag == [code |-> "SITE_LIMIT", severity |-> "info"]
SpfFlag == [code |-> "SPF", severity |-> "info"]

PigmentRule_Inclusive(m, f) == m >= MELANIN_LIMIT \/ f >= FITZ_LIMIT

PigmentRule(m, f) == m > MELANIN_LIMIT \/ f >= FITZ_LIMIT

SiteRule(s) == Lower(s) \in {<<"eye">>, <<"periorbital">>}

SiteCeiling_Reset(cur) == MN_LENGTH_INIT

SiteCeiling(cur) == Min(cur, MN_LENGTH_LOW)

SpfRule(p) == p.spf_prompt # 0

-----------------------------------------------------------------------------
(* server/app.py: analyze, recommendation rules *)

any_over500(pf) == \E k \in DOMAIN pf : pf[k].over_500_Da

any_charged_Truthy(pf) == \E k \in DOMAIN pf : pf[k].charged # "false"

any_charged(pf) == \E k \in DOMAIN pf : pf[k].charged = "true"

any_lipidated(pf) == \E k \in DOMAIN pf : pf[k].lipidated

MicroneedleRec_InitLength(p) ==
    [category |-> "Microneedle",
     rationale |-> "Bypass stratum corneum for larger peptides (>500 Da).",
     parameters |-> [length_mm_suggested |-> MN_LENGTH_INIT, frequency |-> "1x/week"],
     priority |-> 1]

MicroneedleRec(p) ==
    [category |-> "Microneedle",
     rationale |-> "Bypass stratum corneum for larger peptides (>500 Da).",
     parameters |-> [length_mm_suggested |-> p.mn_length_mm, frequency |-> "1x/week"],
     priority |-> 1]

IontophoresisRec ==
    [category |-> "Iontophoresis",
     rationale |-> "Drive charged peptides with mild current.",
     parameters |-> [duration_min |-> 15, sessions_per_week |-> 1],
     priority |-> 2]

VesicularRec ==
    [category |-> "Vesicular Carrier",
     rationale |-> "Improve partitioning using ethosomes/niosomes/transferosomes.",
     parameters |-> [daily_use |-> TRUE],
     priority |-> 3]

HydrationRec ==
    [category |-> "Hydration & Occlusion",
     rationale |-> "Increase SC water content to loosen lipid order slightly.",
     parameters |-> [occlusion_nights_per_week |-> 2],
     priority |-> 4]

VesicularRule_And(over500, lipidated) == over500 /\ ~lipidated

VesicularRule(over500, lipidated) == over500 \/ ~lipidated

RoughRule(t) == t > ROUGHNESS_LIMIT

BuildRecs_Swapped(pf, t, p) ==
    LET r1 == IF any_over500(pf) THEN <<MicroneedleRec(p)>> ELSE <<>>
        r2 == IF VesicularRule(any_over500(pf), any_lipidated(pf))
              THEN Append(r1, VesicularRec) ELSE r1
        r3 == IF any_charged(pf) THEN Append(r2, IontophoresisRec) ELSE r2
        r4 == IF RoughRule(t) THEN Append(r3, HydrationRec) ELSE r3
    IN  r4

BuildRecs(pf, t, p) ==
    LET r1 == IF any_over500(pf) THEN <<MicroneedleRec(p)>> ELSE <<>>
        r2 == IF any_charged(pf) THEN Append(r1, IontophoresisRec) ELSE r1
        r3 == IF VesicularRule(any_over500(pf), any_lipidated(pf))
              THEN Append(r2, VesicularRec) ELSE r2
        r4 == IF RoughRule(t) THEN Append(r3, HydrationRec) ELSE r3
    IN  r4

-----------------------------------------------------------------------------
(* The request handler, one step per statement group *)

Init ==
    /\ pc = "idle"
    /\ mi = 0
    /\ fitz = 0
    /\ site = <<>>
    /\ peptide_list = <<>>
    /\ tr = 0
    /\ flags = <<>>
    /\ params = InitParams
    /\ pep_flags = <<>>
    /\ recs = <<>>

Request ==
    /\ pc = "idle"
    /\ \E m \in MelaninValues, f \in FitzValues, s \in SiteValues,
          pl \in PeptideLists, t \in RoughnessValues :
          /\ mi' = m
          /\ fitz' = f
          /\ site' = s
          /\ peptide_list' = pl
          /\ tr' = t
    /\ flags' = <<>>
    /\ params' = InitParams
    /\ pep_flags' = <<>>
    /\ recs' = <<>>
    /\ pc' = "rule1"

Rule1 ==
    /\ pc = "rule1"
    /\ IF PigmentRule(mi, fitz)
       THEN /\ params' = [params EXCEPT !.mn_length_mm = MN_LENGTH_LOW, !.spf_prompt = 1]
            /\ flags' = Append(flags, LowerMnFlag)
       ELSE UNCHANGED <<params, flags>>
    /\ pc' = "rule2"
    /\ UNCHANGED <<mi, fitz, site, peptide_list, tr, pep_flags, recs>>

Rule2 ==
    /\ pc = "rule2"
    /\ IF SiteRule(site)
       THEN /\ params' = [params EXCEPT !.mn_length_mm = SiteCeiling(params.mn_length_mm)]
            /\ flags' = Append(flags, SiteLimitFlag)
       ELSE UNCHANGED <<params, flags>>
    /\ pc' = "rule3"
    /\ UNCHANGED <<mi, fitz, site, peptide_list, tr, pep_flags, recs>>

Rule3 ==
    /\ pc = "rule3"
    /\ IF SpfRule(params)
       THEN flags' = Append(flags, SpfFlag)
       ELSE UNCHANGED flags
    /\ pc' = "recommend"
    /\ UNCHANGED <<mi, fitz, site, peptide_list, tr, params, pep_flags, recs>>

Recommend ==
    /\ pc = "recommend"
    /\ pep_flags' = flags_from_list(peptide_list)
    /\ recs' = BuildRecs(flags_from_list(peptide_list), tr, params)
    /\ pc' = "done"
    /\ UNCHANGED <<mi, fitz, site, peptide_list, tr, flags, params>>

Respond ==
    /\ pc = "done"
    /\ pc' = "idle"
    /\ mi' = 0
    /\ fitz' = 0
    /\ site' = <<>>
    /\ peptide_list' = <<>>
    /\ tr' = 0
    /\ flags' = <<>>
    /\ params' = InitParams
    /\ pep_flags' = <<>>
    /\ recs' = <<>>

Next == Request \/ Rule1 \/ Rule2 \/ Rule3 \/ Recommend \/ Respond

Spec == Init /\ [][Next]_vars

-----------------------------------------------------------------------------
(* Properties *)

Categories == [i \in 1..Len(recs) |-> recs[i].category]

CategorySet == {recs[i].category : i \in 1..Len(recs)}

FlagCodes == [i \in 1..Len(flags) |-> flags[i].code]

IsPrefix(a, b) == Len(a) <= Len(b) /\ SubSeq(b, 1, Len(a)) = a

HighPigment == mi > 350 \/ fitz >= 4

SiteIsEye == Lower(site) = <<"eye">> \/ Lower(site) = <<"periorbital">>

AllBlank(s) == \A i \in 1..Len(s) : s[i] \in {",", " "}

\* The names a comma-separated string supplies, by position: a name is the
\* lowercased part a..b of the string that holds no comma, starts and ends
\* with a non-blank atom, and is separated from the nearest comma (or the end
\* of the string) on each side by whitespace only.
SuppliedNames(s) ==
    LET n == Len(s)
        LeftOk(a) ==
            \E i \in 1..a :
                (i = 1 \/ s[i - 1] = ",") /\ (\A k \in i..(a - 1) : s[k] = " ")
        RightOk(b) ==
            \E j \in b..n :
                (j = n \/ s[j + 1] = ",") /\ (\A k \in (b + 1)..j : s[k] = " ")
        Cores == {ab \in (1..n) \X (1..n) :
                    /\ ab[1] <= ab[2]
                    /\ s[ab[1]] \notin {" ", ","}
                    /\ s[ab[2]] \notin {" ", ","}
                    /\ \A k \in ab[1]..ab[2] : s[k] # ","
                    /\ LeftOk(ab[1])
                    /\ RightOk(ab[2])}
    IN  {[k \in 1..(ab[2] - ab[1] + 1) |-> LowerAtom(s[ab[1] + k - 1])] : ab \in Cores}

\* C1: the recommendation list holds Microneedle iff some peptide is over
\* 500 Da, Iontophoresis iff some peptide has charged exactly true, Vesicular
\* Carrier iff (some peptide over 500 Da or none lipidated), Hydration &
\* Occlusion iff roughness > 8.0, and no other category; "ghk-cu" alone gives
\* [Iontophoresis, Vesicular Carrier], "matrixyl-3000" alone gives
\* [Microneedle, Vesicular Carrier] (roughness <= 8.0).
C1_RecsFollowRules ==
    pc = "done" =>
        /\ ("Microneedle" \in CategorySet)
              <=> (\E k \in DOMAIN pep_flags : pep_flags[k].over_500_Da)
        /\ ("Iontophoresis" \in CategorySet)
              <=> (\E k \in DOMAIN pep_flags : pep_flags[k].charged = "true")
        /\ ("Vesicular Carrier" \in CategorySet)
              <=> ((\E k \in DOMAIN pep_flags : pep_flags[k].over_500_Da)
                   \/ ~(\E k \in DOMAIN pep_flags : pep_flags[k].lipidated))
        /\ ("Hydration & Occlusion" \in CategorySet) <=> (tr > 80)
        /\ CategorySet \subseteq
              {"Microneedle", "Iontophoresis", "Vesicular Carrier", "Hydration & Occlusion"}
        /\ (peptide_list = <<"ghk-cu">> /\ tr <= 80)
              => Categories = <<"Iontophoresis", "Vesicular Carrier">>
        /\ (peptide_list = <<"matrixyl-3000">> /\ tr <= 80)
              => Categories = <<"Microneedle", "Vesicular Carrier">>

C1_Witness ==
    /\ pc = "done"
    /\ peptide_list = <<"ghk-cu">>
    /\ tr <= 80
    /\ Categories = <<"Iontophoresis", "Vesicular Carrier">>

\* C2: after calibration the flag list is the subsequence of
\* [LOWER_MN, SITE_LIMIT, SPF] with LOWER_MN (caution) present iff melanin >
\* 35.0 or Fitzpatrick >= 4, SITE_LIMIT (info) iff the lowercased site is
\* "eye" or "periorbital", SPF (info) iff LOWER_MN is present; melanin 40.0,
\* Fitzpatrick 2, site "periorbital" gives all three with ceiling 0.2.
C2_FlagSequence ==
    pc \in {"recommend", "done"} =>
        /\ flags =
              (IF HighPigment THEN <<[code |-> "LOWER_MN", severity |-> "caution"]>> ELSE <<>>)
              \o (IF SiteIsEye THEN <<[code |-> "SITE_LIMIT", severity |-> "info"]>> ELSE <<>>)
              \o (IF HighPigment THEN <<[code |-> "SPF", severity |-> "info"]>> ELSE <<>>)
        /\ (mi = 400 /\ fitz = 2 /\ site = <<"periorbital">>)
              => /\ FlagCodes = <<"LOWER_MN", "SITE_LIMIT", "SPF">>
                 /\ params.mn_length_mm = 2

C2_Witness ==
    /\ pc = "done"
    /\ mi = 400 /\ fitz = 2 /\ site = <<"periorbital">>
    /\ FlagCodes = <<"LOWER_MN", "SITE_LIMIT", "SPF">>

RuleStepTightens ==
    pc \in {"rule1", "rule2", "rule3", "recommend"} =>
        (params'.mn_length_mm <= params.mn_length_mm /\ IsPrefix(flags, flags'))

\* C3: within one evaluation the ceiling starts at 0.4 mm and no rule step
\* raises it, the flag list only grows, the ceiling is always <= 0.4 mm, and
\* the final ceiling is 0.2 mm exactly when rule 1 or rule 2 fired.
C3_CeilingOnlyLowers ==
    /\ [](params.mn_length_mm <= 4)
    /\ [](pc = "rule1" => params.mn_length_mm = 4 /\ flags = <<>>)
    /\ [](pc \in {"recommend", "done"} =>
             params.mn_length_mm = (IF HighPigment \/ SiteIsEye THEN 2 ELSE 4))
    /\ [][RuleStepTightens]_vars

C3_Witness ==
    /\ pc = "rule3"
    /\ HighPigment
    /\ SiteIsEye
    /\ params.mn_length_mm = 2
    /\ Len(flags) = 2

\* C4: the recommendation list has strictly increasing priorities, no
\* category twice, and each category carries its fixed priority.
C4_PrioritiesIncrease ==
    pc = "done" =>
        /\ \A i \in 1..Len(recs), j \in 1..Len(recs) :
              i < j => /\ recs[i].priority < recs[j].priority
                       /\ recs[i].category # recs[j].category
        /\ \A i \in 1..Len(recs) :
              recs[i].priority =
                 (CASE recs[i].category = "Microneedle" -> 1
                    [] recs[i].category = "Iontophoresis" -> 2
                    [] recs[i].category = "Vesicular Carrier" -> 3
                    [] recs[i].category = "Hydration & Occlusion" -> 4
                    [] OTHER -> 0)

C4_Witness ==
    /\ pc = "done"
    /\ Len(recs) = 4

\* C5: the keys of the map returned by flags_from_list are exactly the
\* supplied names (each non-empty comma-separated token, trimmed and
\* lowercased), known or not; repeated names give one entry; an empty or
\* all-blank input gives the empty map.
C5_KeysAreSuppliedNames ==
    pc = "done" =>
        /\ DOMAIN pep_flags = SuppliedNames(peptide_list)
        /\ AllBlank(peptide_list) => DOMAIN pep_flags = {}

C5_Witness ==
    /\ pc = "done"
    /\ peptide_list = <<"GHK-Cu", ",", "ghk-cu">>
    /\ DOMAIN pep_flags = {<<"ghk-cu">>}

\* C6: a name outside the knowledge base gets exactly the cautious default
\* record; a name inside it copies lipidated, net_charge, is_skp and
\* approx_mw from the stored entry, with charged = (net_charge is positive
\* or negative) and over_500_Da = (approx_mw > 500).
C6_RecordPerName ==
    pc = "done" =>
        \A n \in DOMAIN pep_flags :
            IF n \in DOMAIN PEPTIDE_KB
            THEN /\ pep_flags[n].lipidated = PEPTIDE_KB[n].lipidated
                 /\ pep_flags[n].net_charge = PEPTIDE_KB[n].net_charge
                 /\ pep_flags[n].is_skp = PEPTIDE_KB[n].is_skp
                 /\ pep_flags[n].approx_mw = PEPTIDE_KB[n].approx_mw
                 /\ pep_flags[n].charged =
                       (IF PEPTIDE_KB[n].net_charge = "positive"
                           \/ PEPTIDE_KB[n].net_charge = "negative"
                        THEN "true" ELSE "false")
                 /\ pep_flags[n].over_500_Da = (PEPTIDE_KB[n].approx_mw > 500)
                 /\ DOMAIN pep_flags[n] =
                       {"lipidated", "charged", "net_charge", "is_skp", "over_500_Da",
                        "approx_mw"}
            ELSE pep_flags[n] =
                    [lipidated |-> FALSE, charged |-> "unknown", net_charge |-> "unknown",
                     is_skp |-> FALSE, over_500_Da |-> TRUE, approx_mw |-> 600]

C6_Witness ==
    /\ pc = "done"
    /\ <<"xyz-123">> \in DOMAIN pep_flags
    /\ <<"ghk-cu">> \in DOMAIN pep_flags
    /\ pep_flags[<<"ghk-cu">>].charged = "true"
    /\ ~pep_flags[<<"ghk-cu">>].over_500_Da

\* C7: a non-empty peptide list holding only names outside the knowledge
\* base always yields Microneedle and Vesicular Carrier and never
\* Iontophoresis (the "unknown" sentinel does not count as charged).
C7_UnknownOnly ==
    (pc = "done" /\ DOMAIN pep_flags # {} /\ DOMAIN pep_flags \cap DOMAIN PEPTIDE_KB = {}) =>
        /\ "Microneedle" \in CategorySet
        /\ "Vesicular Carrier" \in CategorySet
        /\ "Iontophoresis" \notin CategorySet

C7_Witness ==
    /\ pc = "done"
    /\ peptide_list = <<"xyz-123">>
    /\ DOMAIN pep_flags = {<<"xyz-123">>}
    /\ "Microneedle" \in CategorySet
    /\ "Iontophoresis" \notin CategorySet

\* C8: an empty or all-blank peptide list makes all three aggregates false;
\* the list is [Vesicular Carrier, Hydration & Occlusion] when roughness >
\* 8.0 and [Vesicular Carrier] otherwise.
C8_EmptyList ==
    (pc = "done" /\ AllBlank(peptide_list)) =>
        /\ ~(\E k \in DOMAIN pep_flags : pep_flags[k].over_500_Da)
        /\ ~(\E k \in DOMAIN pep_flags : pep_flags[k].charged = "true")
        /\ ~(\E k \in DOMAIN pep_flags : pep_flags[k].lipidated)
        /\ Categories =
              (IF tr > 80 THEN <<"Vesicular Carrier", "Hydration & Occlusion">>
               ELSE <<"Vesicular Carrier">>)

C8_Witness ==
    /\ pc = "done"
    /\ peptide_list = <<" ", ",", " ">>
    /\ tr = 90
    /\ Categories = <<"Vesicular Carrier", "Hydration & Occlusion">>

\* C9: an emitted Microneedle recommendation suggests the final calibrated
\* ceiling: 0.2 mm when melanin > 35.0, Fitzpatrick >= 4 or the site is
\* eye/periorbital, 0.4 mm otherwise; never above the ceiling.
C9_SuggestedLength ==
    pc = "done" =>
        \A i \in 1..Len(recs) :
            recs[i].category = "Microneedle" =>
                /\ recs[i].parameters.length_mm_suggested = params.mn_length_mm
                /\ recs[i].parameters.length_mm_suggested =
                      (IF HighPigment \/ SiteIsEye THEN 2 ELSE 4)

C9_Witness ==
    /\ pc = "done"
    /\ ~HighPigment
    /\ SiteIsEye
    /\ Len(recs) > 0
    /\ recs[1].category = "Microneedle"
    /\ recs[1].parameters.length_mm_suggested = 2

\* C10: with the seed knowledge base Vesicular Carrier is emitted for every
\* peptide list, so the list is never empty and Microneedle never appears
\* without Vesicular Carrier.
C10_VesicularAlways ==
    pc = "done" =>
        /\ "Vesicular Carrier" \in CategorySet
        /\ recs # <<>>

C10_Witness ==
    /\ pc = "done"
    /\ \E k \in DOMAIN pep_flags : pep_flags[k].lipidated
    /\ "Microneedle" \in CategorySet
    /\ "Vesicular Carrier" \in CategorySet

====
